---- MODULE Spec2Model ----
(***************************************************************************)
(* Model of src/index.ts: the WearOS connector script.  One run of main()  *)
(* is a sequence of awaited calls; `cont` holds the calls still to be made *)
(* (the head is the call in progress, the rest is what the callers do      *)
(* after it returns).  Every external command, file probe and prompt is an *)
(* input drawn from a small set.                                           *)
(*                                                                         *)
(* Text is a sequence of characters.  The alphabet has one visible         *)
(* character "d", the space " " and the newline "\n".  The messages given  *)
(* to console.log and addToDebugLog are kept as their template (the text   *)
(* before the interpolated value).                                         *)
(***************************************************************************)
EXTENDS Integers, Sequences, FiniteSets, TLC

VARIABLES
    cont,        \* pending calls: <<[fn, from, arg], ...>>, head = call in progress
    adbPath,     \* module variable adbPath (line 40)
    debugLog,    \* module variable debugLog (line 41), one entry per line
    logFile,     \* content of the file written by Bun.write (line 50)
    out,         \* what console.log / console.error printed, in order
    trace,       \* calls made, commands handed to the executor, prompts shown
    lastShell,   \* what the shell layer did during the latest execCommand call
    lastResult,  \* how the latest execCommand call completed
    probed,      \* fileExists probes of findAdbPath: <<[path, size], ...>>
    isConnected, \* main's const isConnected (line 210)
    answers,     \* main's ipAddress, port, pairCode (lines 217-219)
    exited,      \* the process has ended
    exitStatus,  \* its exit status
    rlClosed     \* rl.close() was called (line 235)

vars == <<cont, adbPath, debugLog, logFile, out, trace, lastShell, lastResult,
          probed, isConnected, answers, exited, exitStatus, rlClosed>>

----------------------------------------------------------------------------
(* Bounds *)

MaxLen == 3         \* longest stdout text of `adb devices`
MaxPathLen == 2     \* longest stdout text of `which adb`

----------------------------------------------------------------------------
(* Text *)

Chars == {"d", " ", "\n"}

IsWs(c) == c \in {" ", "\n"}

Texts(n) == UNION {[1..k -> Chars] : k \in 0..n}

RECURSIVE trimStart(_)
trimStart(s) ==
    IF s = <<>> THEN s
    ELSE IF IsWs(Head(s)) THEN trimStart(Tail(s)) ELSE s

RECURSIVE trimEnd(_)
trimEnd(s) ==
    IF s = <<>> THEN s
    ELSE IF IsWs(s[Len(s)]) THEN trimEnd(SubSeq(s, 1, Len(s) - 1)) ELSE s

\* String.prototype.trim
trim(s) == trimEnd(trimStart(s))

RECURSIVE splitAcc(_, _, _)
splitAcc(s, cur, acc) ==
    IF s = <<>> THEN Append(acc, cur)
    ELSE IF Head(s) = "\n" THEN splitAcc(Tail(s), <<>>, Append(acc, cur))
    ELSE splitAcc(Tail(s), Append(cur, Head(s)), acc)

\* stdout.split("\n")
split(s) == splitAcc(s, <<>>, <<>>)

\* text.includes(needle), on sequences of words
includes(text, needle) ==
    \E i \in 1..(Len(text) - Len(needle) + 1) :
        SubSeq(text, i, i + Len(needle) - 1) = needle

----------------------------------------------------------------------------
(* Values *)

Null == [tag |-> "null"]
Undefined == [tag |-> "undefined"]
Str(t) == [tag |-> "string", val |-> t]

\* Error messages are sequences of words.
DeviceOffline == <<"device", "offline">>
ErrMessages == {<<"error:", "device", "offline">>, <<"error:", "closed">>}

\* the error Bun's $ throws for a non-zero exit; message stands for the error
\* text the command left
ShellError(code, msg) == [tag |-> "ShellError", exitCode |-> code, message |-> msg]
OtherError(msg) == [tag |-> "Error", message |-> msg]

\* JavaScript truthiness of a thrown value
truthy(e) == e.tag \notin {"undefined", "null"}

\* e instanceof Error
instanceofError(e) == e.tag \in {"ShellError", "Error"}

----------------------------------------------------------------------------
(* The shell layer: what Bun's $ does during one execCommand call.        *)
(* diag is the outcome of $`adb devices`.text(); run is the outcome of    *)
(* the requested command, which is not run when the diagnostic throws.    *)

NotRun == [kind |-> "notrun"]
Exit(code, so, se) == [kind |-> "exit", exitCode |-> code, stdout |-> so, stderr |-> se]
Throw(e) == [kind |-> "throw", value |-> e]
DiagOk == [kind |-> "ok"]

Stderrs == {<<>>, <<"d">>}
Failures == {Exit(1, <<>>, m) : m \in ErrMessages} \cup {Exit(2, <<>>, <<"error:", "closed">>)}
Thrown == {Undefined, OtherError(<<"error:", "device", "offline">>)}

Runs(stdouts) ==
    {Exit(0, so, se) : so \in stdouts, se \in Stderrs}
    \cup Failures
    \cup {Throw(e) : e \in Thrown}

ShellOutcomes(stdouts) ==
    {[diag |-> DiagOk, run |-> r] : r \in Runs(stdouts)}
    \cup {[diag |-> Throw(e), run |-> NotRun] :
            e \in {ShellError(1, <<"error:", "closed">>), Undefined}}

----------------------------------------------------------------------------
(* execCommand, lines 14-35 *)

Return(v) == [kind |-> "return", value |-> v]

\* faulty variant: the catch block throws the error on to the caller
execCatchRethrows(error) == Throw(error)

\* the catch block, lines 29-34
execCatch(error) ==
    IF truthy(error)
    THEN Return([stdout |-> <<>>, stderr |-> error, exitCode |-> 1])
    ELSE Return([stdout |-> <<>>, stderr |-> Str(<<"Unknown error">>), exitCode |-> 1])

\* faulty variant: the two streams of the result are exchanged
execCommandSwapsStreams(sh) ==
    IF sh.diag.kind = "throw" THEN execCatch(sh.diag.value)
    ELSE IF sh.run.kind = "throw" THEN execCatch(sh.run.value)
    ELSE IF sh.run.exitCode # 0
         THEN execCatch(ShellError(sh.run.exitCode, sh.run.stderr))
    ELSE Return([stdout   |-> sh.run.stderr,
                 stderr   |-> Str(sh.run.stdout),
                 exitCode |-> sh.run.exitCode])

execCommand(sh) ==
    IF sh.diag.kind = "throw" THEN execCatch(sh.diag.value)
    ELSE IF sh.run.kind = "throw" THEN execCatch(sh.run.value)
    \* .throws(true): a non-zero exit status throws a ShellError
    ELSE IF sh.run.exitCode # 0
         THEN execCatch(ShellError(sh.run.exitCode, sh.run.stderr))
    ELSE Return([stdout   |-> sh.run.stdout,
                 stderr   |-> Str(sh.run.stderr),
                 exitCode |-> sh.run.exitCode])

\* what execCommand itself prints: line 17 when the diagnostic returned,
\* line 23 when the requested command returned
execPrints(sh) ==
    IF sh.diag.kind = "throw" THEN <<>>
    ELSE IF sh.run.kind = "exit" /\ sh.run.exitCode = 0
         THEN <<[log |-> FALSE, msg |-> "<adb devices output> which adb"],
                [log |-> FALSE, msg |-> "<result>"]>>
    ELSE <<[log |-> FALSE, msg |-> "<adb devices output> which adb"]>>

----------------------------------------------------------------------------
(* Console and debug log *)

\* console.log / console.error of a message
P(m) == [log |-> FALSE, msg |-> m]
\* addToDebugLog(m), lines 47-54: appends to debugLog, writes the line to the
\* file (replacing its content) and prints the message
L(m) == [log |-> TRUE, msg |-> m]

Msgs(io) == [i \in 1..Len(io) |-> io[i].msg]
IsLog(x) == x.log

Emit(io) ==
    /\ out' = out \o Msgs(io)
    /\ debugLog' = debugLog \o Msgs(SelectSeq(io, IsLog))
    /\ logFile' = LET w == Msgs(SelectSeq(io, IsLog))
                  IN IF w = <<>> THEN logFile ELSE <<w[Len(w)]>>

----------------------------------------------------------------------------
(* Trace events and pending calls *)

F(fn, from) == [fn |-> fn, from |-> from, arg |-> ""]
Q(var) == [fn |-> "question", from |-> "main", arg |-> var]

Cmd(prog, args) == [prog |-> prog, args |-> args]
Adb == Str(<<"adb">>)

CallEv(f) == [ev |-> "call", fn |-> f.fn, from |-> f.from]
ExecEv(command, sh, c) ==
    [ev      |-> "exec",
     command |-> command,
     ran     |-> sh.run.kind # "notrun",
     ok      |-> c.kind = "return" /\ c.value.exitCode = 0]
QuestionEv(query) == [ev |-> "question", query |-> query]

Running(fn) == ~exited /\ cont # <<>> /\ Head(cont).fn = fn

----------------------------------------------------------------------------
(* findAdbPath, lines 56-79, and fileExists, line 8 *)

commonPaths ==
    << Str(<<"/usr/local/bin/adb">>),
       Str(<<"/opt/homebrew/bin/adb">>),
       Str(<<"~/Library/Android/sdk/platform-tools/adb">>),
       Str(<<"~/Android/Sdk/platform-tools/adb">>),
       Str(<<"/usr/bin/adb">>) >>

\* Bun.file(path).size: 0 for a missing or empty file, the size of the
\* binary otherwise
FileSizes == {0, 4096}
FileSystems == [1..Len(commonPaths) -> FileSizes]

\* Bun.file(path).size > 0; a missing file has size 0
fileExists(size) == size > 0

\* the for loop of lines 70-72, from index i on
RECURSIVE probePaths(_, _, _)
probePaths(i, fs, seen) ==
    IF i > Len(commonPaths) THEN [path |-> Null, probed |-> seen]
    ELSE LET seen2 == Append(seen, [path |-> commonPaths[i], size |-> fs[i]])
         IN IF fileExists(fs[i])
            THEN [path |-> commonPaths[i], probed |-> seen2]
            ELSE probePaths(i + 1, fs, seen2)

\* faulty variant: the output is tested before it is trimmed
whichFoundUntrimmed(r) == r.exitCode = 0 /\ r.stdout # <<>>

\* the decision of line 60
whichFound(r) == r.exitCode = 0 /\ trim(r.stdout) # <<>>

\* c is the completion of execCommand("which adb"), fs the file sizes
findAdbPath(c, fs) ==
    IF c.kind = "throw"
    THEN [path |-> Null, probed |-> <<>>, io |-> <<L("Error finding ADB path: ")>>]
    ELSE IF whichFound(c.value)
         THEN [path |-> Str(trim(c.value.stdout)), probed |-> <<>>,
               io |-> <<P("<stdout>")>>]
    ELSE LET f == probePaths(1, fs, <<>>)
         IN [path |-> f.path, probed |-> f.probed, io |-> <<P("<stdout>")>>]

----------------------------------------------------------------------------
(* isDeviceConnected, lines 81-94 *)

NotBlank(line) == trim(line) # <<>>

\* line 86
nonBlankLines(stdout) == SelectSeq(split(stdout), NotBlank)

\* faulty variant: one line (the header alone) counts as a connected device
connectedDecisionOneLine(exitCode, lines) == exitCode = 0 /\ Len(lines) > 0

\* line 89
connectedDecision(exitCode, lines) == exitCode = 0 /\ Len(lines) > 1

\* c is the completion of execCommand("adb devices")
isDeviceConnected(c) ==
    IF c.kind = "throw"
    THEN [ret |-> FALSE, io |-> <<L("Error checking device connection: ")>>]
    ELSE [ret |-> connectedDecision(c.value.exitCode, nonBlankLines(c.value.stdout)),
          io  |-> <<L("ADB devices output: "), P("<lines>")>>]

----------------------------------------------------------------------------
(* Inputs typed at the prompts *)

IpAddresses == {"10.0.0.2"}
Ports == {"5555"}
PairCodes == {"123456"}

AnswersFor(var) ==
    IF var = "ipAddress" THEN IpAddresses
    ELSE IF var = "port" THEN Ports
    ELSE PairCodes

QueryFor(var) ==
    IF var = "ipAddress" THEN "Enter IP Address: "
    ELSE IF var = "port" THEN "Enter Port: "
    ELSE "Enter Pair Code: "

\* stdout texts of the commands whose output the script only prints
PlainStdouts == {<<"d">>}

----------------------------------------------------------------------------
(* Initial state: the module was loaded, main() is about to run *)

Init ==
    /\ cont = <<F("main", "module")>>
    /\ adbPath = Undefined
    /\ debugLog = <<>>
    /\ logFile = <<>>
    /\ out = <<>>
    /\ trace = <<>>
    /\ lastShell = [diag |-> NotRun, run |-> NotRun]
    /\ lastResult = [kind |-> "none"]
    /\ probed = <<>>
    /\ isConnected = "undefined"
    /\ answers = [ipAddress |-> "undefined", port |-> "undefined", pairCode |-> "undefined"]
    /\ exited = FALSE
    /\ exitStatus = 0
    /\ rlClosed = FALSE

----------------------------------------------------------------------------
(* main, lines 195-236 *)

\* faulty variant: main does not test the locator's result
toolMissingNever(p) == FALSE

\* !adbPath, line 199
toolMissing(p) == p.tag = "null" \/ (p.tag = "string" /\ p.val = <<>>)

\* faulty variant: main pairs whether or not a device is connected
mainBranchAlwaysPairs(connected) ==
    <<Q("ipAddress"), Q("port"), Q("pairCode"),
      F("pairDevice", "main"), F("connectDevice", "main"),
      F("mainEnd", "main")>>

\* lines 211-223: what main awaits after the probe, in order
mainBranch(connected) ==
    IF connected
    THEN <<F("getInstalledApps", "main"), F("getStorageInfo", "main"),
           F("mainEnd", "main")>>
    ELSE <<Q("ipAddress"), Q("port"), Q("pairCode"),
           F("pairDevice", "main"), F("connectDevice", "main"),
           F("mainEnd", "main")>>

\* lines 196-208: banner, findAdbPath, exit when the tool is missing
MainLocate ==
    /\ Running("main")
    /\ \E sh \in ShellOutcomes(Texts(MaxPathLen)), fs \in FileSystems :
        LET c == execCommand(sh)
            f == findAdbPath(c, fs)
            pre == <<P("WearOS Connector")>> \o execPrints(sh) \o f.io
        IN /\ lastShell' = sh
           /\ lastResult' = c
           /\ adbPath' = f.path
           /\ probed' = f.probed
           /\ trace' = trace \o <<CallEv(F("findAdbPath", "main")),
                                  ExecEv(Cmd(Str(<<"which">>), <<"adb">>), sh, c)>>
           /\ IF toolMissing(f.path)
              THEN /\ Emit(pre \o <<P("ADB not found. Please install it and add it to your PATH.")>>)
                   /\ exited' = TRUE
                   /\ exitStatus' = 1
                   /\ cont' = <<>>
              ELSE /\ Emit(pre \o <<P("ADB found at: ")>>)
                   /\ cont' = <<F("isDeviceConnected", "main")>>
                   /\ UNCHANGED <<exited, exitStatus>>
    /\ UNCHANGED <<isConnected, answers, rlClosed>>

\* lines 210-216: the probe and the branch on its result
MainProbe ==
    /\ Running("isDeviceConnected")
    /\ \E sh \in ShellOutcomes(Texts(MaxLen)) :
        LET c == execCommand(sh)
            r == isDeviceConnected(c)
        IN /\ lastShell' = sh
           /\ lastResult' = c
           /\ isConnected' = IF r.ret THEN "true" ELSE "false"
           /\ trace' = trace \o <<CallEv(Head(cont)),
                                  ExecEv(Cmd(Adb, <<"devices">>), sh, c)>>
           /\ Emit(execPrints(sh) \o r.io \o
                   <<IF r.ret THEN P("A device is already connected.")
                     ELSE P("No device connected. Let's connect one.")>>)
           /\ cont' = mainBranch(r.ret)
    /\ UNCHANGED <<adbPath, probed, answers, exited, exitStatus, rlClosed>>

\* question, lines 37-38, as awaited at lines 217-219
Question ==
    /\ Running("question")
    /\ \E a \in AnswersFor(Head(cont).arg) :
        answers' = [answers EXCEPT ![Head(cont).arg] = a]
    /\ trace' = Append(trace, QuestionEv(QueryFor(Head(cont).arg)))
    /\ cont' = Tail(cont)
    /\ UNCHANGED <<adbPath, debugLog, logFile, out, lastShell, lastResult,
                   probed, isConnected, exited, exitStatus, rlClosed>>

\* lines 225-235: the debug log is printed, the prompt interface closed
MainEnd ==
    /\ Running("mainEnd")
    /\ Emit(<<P("Debug Log:"), P("<debugLog>"),
              P("Full debug log has been saved to wearos_connector_debug.log")>>)
    /\ rlClosed' = TRUE
    /\ exited' = TRUE
    /\ exitStatus' = 0
    /\ cont' = Tail(cont)
    /\ UNCHANGED <<adbPath, trace, lastShell, lastResult, probed, isConnected, answers>>

----------------------------------------------------------------------------
(* pairDevice, lines 96-117 *)

\* what pairDevice prints and logs once execCommand completed as c
pairDeviceIo(c) ==
    IF c.kind = "throw"
    THEN <<P("Error pairing device: "), L("Exception details: ")>>
    ELSE <<L("Stdout: "), L("Stderr: "), L("Exit code: ")>> \o
         (IF c.value.exitCode = 0
          THEN <<P("Device paired successfully")>>
          ELSE <<P("Pairing failed: ")>>)

\* lines 107-112: on success pairDevice awaits connectDevice, then returns
pairDeviceNext(c, rest) ==
    IF c.kind = "return" /\ c.value.exitCode = 0
    THEN <<F("connectDevice", "pairDevice")>> \o rest
    ELSE rest

PairDevice ==
    /\ Running("pairDevice")
    /\ \E sh \in ShellOutcomes(PlainStdouts) :
        LET c == execCommand(sh)
            command == Cmd(Adb, <<"pair", answers.ipAddress, ":", answers.port,
                                  answers.pairCode>>)
        IN /\ lastShell' = sh
           /\ lastResult' = c
           /\ trace' = trace \o <<CallEv(Head(cont)), ExecEv(command, sh, c)>>
           /\ Emit(<<L("Attempting to pair device..."), L("Command: ")>> \o
                   execPrints(sh) \o pairDeviceIo(c))
           /\ cont' = pairDeviceNext(c, Tail(cont))
    /\ UNCHANGED <<adbPath, probed, isConnected, answers, exited, exitStatus, rlClosed>>

----------------------------------------------------------------------------
(* connectDevice, lines 119-139 *)

connectDeviceIo(c) ==
    IF c.kind = "throw"
    THEN <<P("Error connecting device: "), L("Exception details: ")>>
    ELSE <<L("Connect stdout: "), L("Connect stderr: "), L("Connect exit code: ")>> \o
         (IF c.value.exitCode = 0
          THEN <<P("Device connected successfully")>>
          ELSE <<P("Connection failed: ")>>)

\* lines 128-134: on success connectDevice awaits the two info routines
connectDeviceNext(c, rest) ==
    IF c.kind = "return" /\ c.value.exitCode = 0
    THEN <<F("getInstalledApps", "connectDevice"),
           F("getStorageInfo", "connectDevice")>> \o rest
    ELSE rest

ConnectDevice ==
    /\ Running("connectDevice")
    /\ \E sh \in ShellOutcomes(PlainStdouts) :
        LET c == execCommand(sh)
            command == Cmd(Adb, <<"connect", answers.ipAddress, ":", answers.port>>)
        IN /\ lastShell' = sh
           /\ lastResult' = c
           /\ trace' = trace \o <<CallEv(Head(cont)), ExecEv(command, sh, c)>>
           /\ Emit(<<L("Connecting device with command: ")>> \o
                   execPrints(sh) \o connectDeviceIo(c))
           /\ cont' = connectDeviceNext(c, Tail(cont))
    /\ UNCHANGED <<adbPath, probed, isConnected, answers, exited, exitStatus, rlClosed>>

----------------------------------------------------------------------------
(* getInstalledApps, lines 141-167, and getStorageInfo, lines 169-193 *)

OfflineHint == "Device is offline. Please ensure it's connected and try again."

\* e instanceof Error && e.message.includes("device offline")
isOfflineError(e) == instanceofError(e) /\ includes(e.message, DeviceOffline)

getInstalledAppsIo(c) ==
    IF c.kind = "throw"
    THEN <<IF isOfflineError(c.value) THEN P(OfflineHint)
           ELSE P("Error getting installed apps: "),
           L("Exception details: ")>>
    ELSE IF c.value.exitCode = 0
         THEN <<P("Installed Apps:"), P("<stdout>")>>
         ELSE <<P("Failed to get installed apps: ")>>

GetInstalledApps ==
    /\ Running("getInstalledApps")
    /\ \E sh \in ShellOutcomes(PlainStdouts) :
        LET c == execCommand(sh)
            command == Cmd(adbPath, <<"shell", "pm", "list", "packages">>)
        IN /\ lastShell' = sh
           /\ lastResult' = c
           /\ trace' = trace \o <<CallEv(Head(cont)), ExecEv(command, sh, c)>>
           /\ Emit(execPrints(sh) \o getInstalledAppsIo(c))
    /\ cont' = Tail(cont)
    /\ UNCHANGED <<adbPath, probed, isConnected, answers, exited, exitStatus, rlClosed>>

getStorageInfoIo(c) ==
    IF c.kind = "throw"
    THEN <<IF isOfflineError(c.value) THEN P(OfflineHint)
           ELSE P("Error getting storage info: "),
           L("Exception details: ")>>
    ELSE IF c.value.exitCode = 0
         THEN <<P("Storage Info:"), P("<stdout>")>>
         ELSE <<P("Failed to get storage info: ")>>

\* faulty variant: a failed storage command ends the process, as the missing tool does
GetStorageInfoExits ==
    /\ Running("getStorageInfo")
    /\ \E sh \in ShellOutcomes(PlainStdouts) :
        LET c == execCommand(sh)
            command == Cmd(adbPath, <<"shell", "df">>)
            failed == c.kind = "return" /\ c.value.exitCode # 0
        IN /\ lastShell' = sh
           /\ lastResult' = c
           /\ trace' = trace \o <<CallEv(Head(cont)), ExecEv(command, sh, c)>>
           /\ Emit(execPrints(sh) \o getStorageInfoIo(c))
           /\ cont' = IF failed THEN <<>> ELSE Tail(cont)
           /\ exited' = failed
           /\ exitStatus' = IF failed THEN 1 ELSE exitStatus
    /\ UNCHANGED <<adbPath, probed, isConnected, answers, rlClosed>>

GetStorageInfo ==
    /\ Running("getStorageInfo")
    /\ \E sh \in ShellOutcomes(PlainStdouts) :
        LET c == execCommand(sh)
            command == Cmd(adbPath, <<"shell", "df">>)
        IN /\ lastShell' = sh
           /\ lastResult' = c
           /\ trace' = trace \o <<CallEv(Head(cont)), ExecEv(command, sh, c)>>
           /\ Emit(execPrints(sh) \o getStorageInfoIo(c))
    /\ cont' = Tail(cont)
    /\ UNCHANGED <<adbPath, probed, isConnected, answers, exited, exitStatus, rlClosed>>

----------------------------------------------------------------------------
(* The run *)

Next ==
    \/ MainLocate
    \/ MainProbe
    \/ Question
    \/ PairDevice
    \/ ConnectDevice
    \/ GetInstalledApps
    \/ GetStorageInfo
    \/ MainEnd

Spec == Init /\ [][Next]_vars

\* Every awaited command and prompt returns, and the single thread of control
\* then runs on: the step that is enabled is eventually taken.
FairSpec == Spec /\ WF_vars(Next)

----------------------------------------------------------------------------
(* Vocabulary of the properties *)

IsExec(e, prog, verb) ==
    /\ e.ev = "exec"
    /\ e.command.prog = prog
    /\ e.command.args[1] = verb

IsPairCmd(e) == IsExec(e, Adb, "pair")
IsConnectCmd(e) == IsExec(e, Adb, "connect")
IsInfoCmd(e) == e.ev = "exec" /\ e.command.args[1] = "shell"
IsCall(e, fn) == e.ev = "call" /\ e.fn = fn
IsInfoCall(e) == IsCall(e, "getInstalledApps") \/ IsCall(e, "getStorageInfo")

Calls(fn) == {i \in DOMAIN trace : IsCall(trace[i], fn)}
\* connect commands the shell actually ran
ConnectsRun == {i \in DOMAIN trace : IsConnectCmd(trace[i]) /\ trace[i].ran}

Printed(m) == \E i \in DOMAIN out : out[i] = m
LogPrinted == Printed("Debug Log:")
ToolFound == adbPath.tag = "string" /\ adbPath.val # <<>>

LastEvent == trace[Len(trace)]
LastOut == out[Len(out)]

\* the shell layer ran the requested command and reported exit code 0
ShellExitZero == lastShell.run.kind = "exit" /\ lastShell.run.exitCode = 0

\* the value thrown inside the latest execCommand call, if any
ShellThrew ==
    \/ lastShell.diag.kind = "throw"
    \/ lastShell.run.kind = "throw"
    \/ (lastShell.run.kind = "exit" /\ lastShell.run.exitCode # 0)

\* the requested command failed with error text containing "device offline"
FailedOffline ==
    \/ /\ lastShell.run.kind = "exit"
       /\ lastShell.run.exitCode # 0
       /\ includes(lastShell.run.stderr, DeviceOffline)
    \/ /\ lastShell.run.kind = "throw"
       /\ lastShell.run.value.tag = "Error"
       /\ includes(lastShell.run.value.message, DeviceOffline)

\* number of lines of s, split on newline, that hold a visible character:
\* counted by the first visible character of each line
NonBlankLineCount(s) ==
    Cardinality({i \in 1..Len(s) :
        /\ ~IsWs(s[i])
        /\ \A j \in 1..(i - 1) :
              (\A k \in j..(i - 1) : s[k] # "\n") => IsWs(s[j])})

\* s without its leading and trailing whitespace, by positions
Trimmed(s) ==
    LET vis == {i \in 1..Len(s) : ~IsWs(s[i])}
    IN IF vis = {} THEN <<>>
       ELSE SubSeq(s, CHOOSE i \in vis : \A j \in vis : i <= j,
                      CHOOSE i \in vis : \A j \in vis : i >= j)

\* findAdbPath has just returned / isDeviceConnected has just returned
LocateJustDone ==
    trace # <<>> /\ IsExec(LastEvent, Str(<<"which">>), "adb")
ProbeJustDone ==
    trace # <<>> /\ IsExec(LastEvent, Adb, "devices")
InfoJustDone ==
    trace # <<>> /\ IsInfoCmd(LastEvent)

\* every fallback path was probed and none exists
NoFallbackFound ==
    /\ Len(probed) = Len(commonPaths)
    /\ \A i \in DOMAIN probed : probed[i].size = 0

----------------------------------------------------------------------------
(* Properties *)

\* C1: once a pair command has failed, no `adb connect` command is run and
\* neither info routine is called during the rest of the run.
C1_FailedPairSkipsConnect ==
    \A i \in DOMAIN trace :
        (IsPairCmd(trace[i]) /\ ~trace[i].ok) =>
            \A j \in (i + 1)..Len(trace) :
                /\ ~(IsConnectCmd(trace[j]) /\ trace[j].ran)
                /\ ~IsInfoCall(trace[j])

\* C2: in every run the connect command is run at most once and each info
\* routine is called at most once.
C2_ConnectAndInfoAtMostOnce ==
    /\ Cardinality(ConnectsRun) <= 1
    /\ Cardinality(Calls("getInstalledApps")) <= 1
    /\ Cardinality(Calls("getStorageInfo")) <= 1

\* C3: once the tool is located the run eventually prints the debug log,
\* whatever the commands' outcomes; a run that ends without printing it is
\* the tool-not-found exit with status 1.
C3_AlwaysReachesLog ==
    /\ ToolFound ~> LogPrinted
    /\ [](exited /\ ~LogPrinted => exitStatus = 1 /\ toolMissing(adbPath))

C3_Witness ==
    /\ LogPrinted
    /\ \E i \in DOMAIN trace : IsPairCmd(trace[i]) /\ ~trace[i].ok
    /\ \E i \in DOMAIN trace : IsConnectCmd(trace[i]) /\ ~trace[i].ok
    /\ \E i \in DOMAIN trace : IsExec(trace[i], Adb, "devices") /\ ~trace[i].ok

\* C4: when `which adb` found nothing and no fallback path exists, the
\* process has printed "ADB not found", exited with status 1, and nothing
\* beyond the tool locator has run: no probe, prompt, pair, connect, info
\* routine or debug-log print.
C4_ToolNotFoundExits ==
    NoFallbackFound =>
        /\ exited
        /\ exitStatus = 1
        /\ cont = <<>>
        /\ LastOut = "ADB not found. Please install it and add it to your PATH."
        /\ ~LogPrinted
        /\ debugLog = <<>>
        /\ trace = <<trace[1], trace[2]>>
        /\ IsCall(trace[1], "findAdbPath")
        /\ LocateJustDone

C4_Witness ==
    /\ NoFallbackFound
    /\ exited
    /\ exitStatus = 1
    /\ lastShell.run.kind = "exit"
    /\ lastShell.run.exitCode = 0
    /\ lastShell.run.stdout = <<" ">>

\* C5: when the probe reported a connected device, no prompt is shown and
\* neither pairDevice nor connectDevice is called; getInstalledApps and then
\* getStorageInfo are called, once each, by the time the run ends.
C5_ConnectedFetchesInfoOnly ==
    isConnected = "true" =>
        /\ \A i \in DOMAIN trace :
              /\ trace[i].ev # "question"
              /\ ~IsCall(trace[i], "pairDevice")
              /\ ~IsCall(trace[i], "connectDevice")
              /\ ~IsPairCmd(trace[i])
              /\ ~IsConnectCmd(trace[i])
        /\ \A j \in Calls("getStorageInfo") :
              \E i \in Calls("getInstalledApps") : i < j
        /\ exited =>
              /\ Cardinality(Calls("getInstalledApps")) = 1
              /\ Cardinality(Calls("getStorageInfo")) = 1

C5_Witness ==
    /\ isConnected = "true"
    /\ exited
    /\ Calls("getInstalledApps") # {}
    /\ Calls("getStorageInfo") # {}

\* C6: when the installed-apps or storage command has failed, the routine's
\* last message is the 'Device is offline' hint if the error text contains
\* "device offline", and the generic failure message otherwise.
C6_OfflineHintPrinted ==
    (InfoJustDone /\ ~LastEvent.ok /\ lastShell.run.kind # "notrun") =>
        IF FailedOffline
        THEN LastOut = OfflineHint
        ELSE LastOut \in {"Failed to get installed apps: ",
                          "Failed to get storage info: ",
                          "Error getting installed apps: ",
                          "Error getting storage info: "}

\* C7 as stated: a command the shell layer reports with exit code 0 gives a
\* result with exitCode 0 and empty stderr.
C7_ExitZeroEmptyStderr ==
    ShellExitZero =>
        /\ lastResult.kind = "return"
        /\ lastResult.value.exitCode = 0
        /\ lastResult.value.stderr = Str(<<>>)

\* C7 amended: a command the shell layer ran and reports with exit code 0
\* gives a result with exitCode 0, the command's output as stdout and as
\* stderr exactly what the command wrote to its error stream.
C7_ExitZeroPassesStreams ==
    ShellExitZero =>
        /\ lastResult.kind = "return"
        /\ lastResult.value.exitCode = 0
        /\ lastResult.value.stdout = lastShell.run.stdout
        /\ lastResult.value.stderr = Str(lastShell.run.stderr)

C7_Witness ==
    /\ ShellExitZero
    /\ lastShell.run.stderr # <<>>
    /\ lastResult.value.exitCode = 0

\* C8: whatever is thrown during an executor call (a non-zero exit of the
\* command, a failing diagnostic, any other value), the executor returns
\* stdout "" and exitCode 1, with the error (or "Unknown error" for a falsy
\* value) as stderr; it does not throw.
C8_ErrorsBecomeResults ==
    ShellThrew =>
        /\ lastResult.kind = "return"
        /\ lastResult.value.stdout = <<>>
        /\ lastResult.value.exitCode = 1
        /\ lastResult.value.stderr =
              (IF lastShell.diag.kind = "throw"
               THEN (IF lastShell.diag.value = Undefined
                     THEN Str(<<"Unknown error">>) ELSE lastShell.diag.value)
               ELSE IF lastShell.run.kind = "throw"
               THEN (IF lastShell.run.value = Undefined
                     THEN Str(<<"Unknown error">>) ELSE lastShell.run.value)
               ELSE [tag |-> "ShellError",
                     exitCode |-> lastShell.run.exitCode,
                     message |-> lastShell.run.stderr])

C8_Witness ==
    /\ lastShell.run.kind = "exit"
    /\ lastShell.run.exitCode = 2
    /\ lastResult.kind = "return"
    /\ lastResult.value.exitCode = 1

\* C9: isDeviceConnected returns true exactly when the executor result of
\* `adb devices` has exit code 0 and at least 2 non-blank lines.
C9_ConnectedIffTwoLines ==
    ProbeJustDone =>
        /\ lastResult.kind = "return"
        /\ (isConnected = "true") <=>
              /\ lastResult.value.exitCode = 0
              /\ NonBlankLineCount(lastResult.value.stdout) >= 2
        /\ isConnected \in {"true", "false"}

C9_Witness ==
    /\ ProbeJustDone
    /\ isConnected = "true"
    /\ NonBlankLineCount(lastResult.value.stdout) = 2
    /\ lastResult.value.stdout = <<"d", "\n", "d">>

\* C10: when `which adb` gave exit code 0 and output that is not blank,
\* findAdbPath returns that output trimmed and probes no fallback path;
\* otherwise it probes the fallback paths in order up to the first that
\* exists and returns it, or null when none exists.
C10_LocatorResult ==
    LocateJustDone =>
        /\ lastResult.kind = "return"
        /\ IF lastResult.value.exitCode = 0 /\ Trimmed(lastResult.value.stdout) # <<>>
           THEN /\ adbPath = Str(Trimmed(lastResult.value.stdout))
                /\ probed = <<>>
           ELSE /\ Len(probed) \in 1..Len(commonPaths)
                /\ \A i \in DOMAIN probed : probed[i].path = commonPaths[i]
                /\ \A i \in 1..(Len(probed) - 1) : probed[i].size = 0
                /\ IF probed[Len(probed)].size > 0
                   THEN adbPath = commonPaths[Len(probed)]
                   ELSE Len(probed) = Len(commonPaths) /\ adbPath = Null

C10_Witness ==
    /\ LocateJustDone
    /\ lastResult.value.exitCode = 0
    /\ Len(lastResult.value.stdout) = 2
    /\ Trimmed(lastResult.value.stdout) = <<>>
    /\ Len(probed) = 3
    /\ adbPath = commonPaths[3]

====
